---- MODULE Spec2Model ----
(***************************************************************************)
(* A model of limn's retained-mode core.                                   *)
(*                                                                         *)
(*   WidgetGraph (src/src/ui/graph.rs): a petgraph StableGraph of widget   *)
(*   containers, addressed from outside by WidgetId through widget_map.    *)
(*   Spec makes the calls that change the graph; QuerySpec makes every     *)
(*   call, the read-only ones included, on a smaller storage.              *)
(*                                                                         *)
(*   Ui (src/src/ui.rs, src/src/widget/mod.rs): the event dispatcher over  *)
(*   a petgraph Graph of widgets.  Its specification is UiSpec.            *)
(*   LayoutSpec is the same Ui with init, which hands the widgets' layout  *)
(*   constraints to the cassowary solver.  WalkSpec builds WidgetGraphs    *)
(*   without removing from them and walks them.                            *)
(*                                                                         *)
(* Option<T> is a sequence of length at most one: None is << >> and        *)
(* Some(x) is <<x>>.  A walker is modelled by the sequence it yields when  *)
(* it is driven to exhaustion on the unchanged graph.                      *)
(***************************************************************************)
EXTENDS Integers, Sequences, FiniteSets, TLC

VARIABLES
    nodes,        \* WidgetGraph.graph: node slots, NodeIndex -> Option<WidgetContainer>
    free_node,    \* WidgetGraph.graph: the vacant slots, most recently freed first
    edges,        \* WidgetGraph.graph: the edges <<source, target>>, oldest first
    widget_map,   \* WidgetGraph.widget_map: WidgetId -> NodeIndex
    root_id,      \* WidgetGraph.root_id
    last_call,    \* the last WidgetGraph call: its name, arguments, result, and whether it panicked
    ui_nodes,     \* Ui.graph: the widgets, by NodeIndex
    ui_edges,     \* Ui.graph: the edges <<parent, child>>, oldest first
    mouse,        \* Ui.input_state.mouse
    ui_call,      \* the last Ui call: its name and the event it was given
    calls,        \* the handler invocations the last Ui call made, in order
    layout_constraints,  \* widget.layout.constraints of every widget of Ui.graph, by NodeIndex
    constraints,  \* Ui.constraints
    solver,       \* Ui.solver: the constraints it holds
    ui_panicked   \* whether a Ui call has panicked

graphVars == <<nodes, free_node, edges, widget_map, root_id>>

layoutVars == <<layout_constraints, constraints, solver, ui_panicked>>

uiVars == <<ui_nodes, ui_edges, mouse, ui_call, calls, layoutVars>>

vars == <<nodes, free_node, edges, widget_map, root_id, last_call,
          ui_nodes, ui_edges, mouse, ui_call, calls,
          layout_constraints, constraints, solver, ui_panicked>>

-----------------------------------------------------------------------------
(* Bounds and input sets *)

\* the number of node slots the graph storage may grow to, the sentinel's included
MaxNodes == 4

\* the same, in the specification that also makes the read-only calls
MaxQueryNodes == 3

\* the same, in the specification that builds graphs and walks them
MaxWalkNodes == 4

\* the number of widgets of the Ui's tree in the specification with init, the root included
MaxLayoutNodes == 4

\* the WidgetIds the callers use; 0 is also the id of the sentinel's dummy widget
WidgetIds == {0, 1, 2}

\* the points hit tests are asked about
Points == {"p", "q"}

\* a container's hit test, as the set of points it answers true for
HitSets == {{"p"}, {"p", "q"}}

None == << >>

Some(x) == <<x>>

\* the containers a caller may hand to add_widget
Containers == [id : WidgetIds, hits : HitSets]

\* the same with one hit test, where no hit test is ever asked
PlainContainers == [id : WidgetIds, hits : {{"p"}}]

\* the ids resources().widget_id() may have issued for the root
RootIds == {1}

\* the number of widgets of the Ui's graph, the root included
MaxUiNodes == 3

\* the cursor positions: InputState::new's (0.0, 0.0) and where the cursor is moved to
Origin == "o"

CursorTargets == {"p"}

UiPoints == {Origin, "p", "q"}

\* the event ids: the raw input kinds, the two widget kinds post_event
\* dispatches, and a kind a handler may trigger
MOUSE_CURSOR == "MOUSE_CURSOR"

PRESS == "PRESS"

RELEASE == "RELEASE"

WIDGET_MOUSE_OVER == "WIDGET_MOUSE_OVER"

WIDGET_PRESS == "WIDGET_PRESS"

TOGGLED == "TOGGLED"

\* the raw events the input source hands to the Ui
Events ==
    {[id |-> PRESS, pos |-> None], [id |-> RELEASE, pos |-> None]}
        \cup {[id |-> MOUSE_CURSOR, pos |-> Some(p)] : p \in CursorTargets}

\* the payload of a broadcast: Event::Update(UpdateArgs{dt: 0.0})
Update0 == [id |-> "UPDATE", dt |-> 0]

\* what a handler may return
HandlerReturns == {None, Some(TOGGLED)}

\* the event ids of a widget's handlers, in the order of event_handlers
HandlerLists ==
    {<< >>, <<WIDGET_PRESS>>, <<WIDGET_MOUSE_OVER>>, <<TOGGLED>>, <<WIDGET_PRESS, TOGGLED>>}

\* the widgets a caller may hand to Ui::add_widget: the hit test as the set of
\* points mouse_over_fn answers true for with the widget's bounds
UiWidgets == [hits : {{"p"}, {"q"}}, event_handlers : HandlerLists]

\* the constraints a widget's author has put in its layout before it is added, by kind
NoLayout == << >>

Layouts == {NoLayout, <<"width">>}

\* the widgets added in the specification with init
LayoutWidgets == {[hits |-> {"p"}, event_handlers |-> << >>]}

-----------------------------------------------------------------------------
(* petgraph::stable_graph::StableGraph, as WidgetGraph uses it *)

contains_node(ns, a) == a \in DOMAIN ns /\ ns[a] # None

\* StableGraph::add_node: the index the new node gets (a vacant slot is reused,
\* the most recently freed one first; otherwise the storage grows by one slot)
add_node_index(ns, free) ==
    IF free # << >> THEN Head(free) ELSE Cardinality(DOMAIN ns)

add_node_nodes(ns, free, weight) ==
    LET a == add_node_index(ns, free)
    IN  [i \in (DOMAIN ns) \cup {a} |-> IF i = a THEN Some(weight) ELSE ns[i]]

add_node_free(free) == IF free # << >> THEN Tail(free) ELSE free

\* StableGraph::add_edge appends an edge; both end points must be live
add_edge(es, a, b) == Append(es, <<a, b>>)

\* a removal that leaves the edges into the node in place
RECURSIVE without_node_outgoing(_, _)
without_node_outgoing(es, a) ==
    IF es = << >> THEN << >>
    ELSE IF Head(es)[1] = a
         THEN without_node_outgoing(Tail(es), a)
         ELSE <<Head(es)>> \o without_node_outgoing(Tail(es), a)

\* StableGraph::remove_node: the slot is vacated, every edge from or to the
\* node is removed, and the slot heads the free list
RECURSIVE without_node(_, _)
without_node(es, a) ==
    IF es = << >> THEN << >>
    ELSE IF Head(es)[1] = a \/ Head(es)[2] = a
         THEN without_node(Tail(es), a)
         ELSE <<Head(es)>> \o without_node(Tail(es), a)

remove_node_nodes(ns, a) == [ns EXCEPT ![a] = None]

remove_node_free(free, a) == <<a>> \o free

\* neighbors_directed(a, dir): the nodes at the other end of a's edges in
\* direction dir, the most recently added edge first
RECURSIVE neighbors_directed(_, _, _)
neighbors_directed(es, a, dir) ==
    IF es = << >> THEN << >>
    ELSE LET e == Head(es)
             rest == neighbors_directed(Tail(es), a, dir)
         IN  IF dir = "Outgoing" /\ e[1] = a THEN rest \o <<e[2]>>
             ELSE IF dir = "Incoming" /\ e[2] = a THEN rest \o <<e[1]>>
             ELSE rest

RECURSIVE push_unvisited(_, _, _)
push_unvisited(stack, succs, discovered) ==
    IF succs = << >> THEN stack
    ELSE push_unvisited(
             IF Head(succs) \in discovered THEN stack ELSE Append(stack, Head(succs)),
             Tail(succs), discovered)

\* petgraph::visit::Dfs driven to exhaustion: the stack's top is its last element
RECURSIVE dfs_run(_, _, _)
dfs_run(es, stack, discovered) ==
    IF stack = << >> THEN << >>
    ELSE LET node == stack[Len(stack)]
             rest == SubSeq(stack, 1, Len(stack) - 1)
         IN  IF node \in discovered
             THEN dfs_run(es, rest, discovered)
             ELSE <<node>> \o
                  dfs_run(es,
                          push_unvisited(rest, neighbors_directed(es, node, "Outgoing"),
                                         discovered \cup {node}),
                          discovered \cup {node})

Dfs(es, start) == dfs_run(es, <<start>>, {})

\* petgraph::visit::DfsPostOrder driven to exhaustion: a node is yielded when it
\* is met on the stack's top for the second time, after all its successors
RECURSIVE dfs_post_run(_, _, _, _)
dfs_post_run(es, stack, discovered, finished) ==
    IF stack = << >> THEN << >>
    ELSE LET node == stack[Len(stack)]
             rest == SubSeq(stack, 1, Len(stack) - 1)
         IN  IF node \notin discovered
             THEN dfs_post_run(es,
                      push_unvisited(stack, neighbors_directed(es, node, "Outgoing"),
                                     discovered \cup {node}),
                      discovered \cup {node}, finished)
             ELSE IF node \notin finished
                  THEN <<node>> \o dfs_post_run(es, rest, discovered, finished \cup {node})
                  ELSE dfs_post_run(es, rest, discovered, finished)

DfsPostOrder(es, start) == dfs_post_run(es, <<start>>, {}, {})

-----------------------------------------------------------------------------
(* WidgetGraph *)

\* the sentinel: WidgetGraph::new adds it first, to an empty graph
null_index == 0

dummy_container == [id |-> 0, hits |-> {}]

\* WidgetGraph::find_widget
find_widget(widget_id) ==
    IF widget_id \in DOMAIN widget_map THEN Some(widget_map[widget_id]) ELSE None

\* self.widget_map.get(&widget_id).unwrap_or(&self.null_index)
index_or_null(widget_id) ==
    IF widget_id \in DOMAIN widget_map THEN widget_map[widget_id] ELSE null_index

\* graph[node_index].widget.id, for each index a walker yields
RECURSIVE widget_ids(_)
widget_ids(indices) ==
    IF indices = << >> THEN << >>
    ELSE <<nodes[Head(indices)][1].id>> \o widget_ids(Tail(indices))

\* WidgetGraph::get_widget_container (get_widget returns the container's widget)
get_widget_container(widget_id) ==
    IF widget_id \in DOMAIN widget_map /\ contains_node(nodes, widget_map[widget_id])
    THEN nodes[widget_map[widget_id]]
    ELSE None

\* NeighborsWalker::collect
NeighborsWalker(node_index, direction) ==
    widget_ids(neighbors_directed(edges, node_index, direction))

\* WidgetGraph::parent: the walker's first item
parent(widget_id) ==
    LET w == NeighborsWalker(index_or_null(widget_id), "Incoming")
    IN  IF w = << >> THEN None ELSE Some(Head(w))

\* WidgetGraph::children
children(widget_id) == NeighborsWalker(index_or_null(widget_id), "Outgoing")

\* a walker that is given the post-order traversal
DfsWalker_post_order(widget_id) == widget_ids(DfsPostOrder(edges, index_or_null(widget_id)))

\* WidgetGraph::dfs with DfsWalker::next until None
DfsWalker(widget_id) == widget_ids(Dfs(edges, index_or_null(widget_id)))

\* Widget::is_mouse_over, in the graph's widgets
is_mouse_over_at(container, point) == point \in container.hits

RECURSIVE under_cursor(_, _)
under_cursor(indices, point) ==
    IF indices = << >> THEN << >>
    ELSE LET widget == nodes[Head(indices)][1]
         IN  (IF is_mouse_over_at(widget, point) THEN <<widget.id>> ELSE << >>)
             \o under_cursor(Tail(indices), point)

\* a cursor walker that is given the pre-order traversal
CursorWidgetWalker_pre_order(point, root_index) ==
    under_cursor(Dfs(edges, root_index), point)

\* CursorWidgetWalker::next until None, from root_index
CursorWidgetWalker(point, root_index) ==
    under_cursor(DfsPostOrder(edges, root_index), point)

Call(op, args, ret, panicked) ==
    [op |-> op, args |-> args, ret |-> ret, panicked |-> panicked]

\* Ui::new: the root is the first node of an empty graph; it has no handlers
ui_root_index == 0

ui_root == [hits |-> UiPoints, event_handlers |-> << >>]

\* a constraint, by the widget whose layout variables it is built for and its kind;
\* every Constraint the program builds is an object of its own
Constraint(owner, kind) == [owner |-> owner, kind |-> kind]

\* the constraints Ui::new pushes: root.layout.left = 0 and root.layout.top = 0
ui_root_constraints == <<Constraint(ui_root_index, "left"), Constraint(ui_root_index, "top")>>

\* WidgetGraph::new and Ui::new
Init ==
    /\ nodes = [i \in {null_index} |-> Some(dummy_container)]
    /\ free_node = << >>
    /\ edges = << >>
    /\ widget_map = << >>
    /\ root_id \in RootIds
    /\ last_call = Call("new", << >>, << >>, FALSE)
    /\ ui_nodes = [i \in {ui_root_index} |-> ui_root]
    /\ ui_edges = << >>
    /\ mouse = Origin
    /\ ui_call = [op |-> "new", event |-> None]
    /\ calls = << >>
    /\ layout_constraints = [i \in {ui_root_index} |-> << >>]
    /\ constraints = ui_root_constraints
    /\ solver = {}
    /\ ui_panicked = FALSE

\* the graph after   widget_index = graph.add_node(widget); widget_map.insert(id, widget_index)
map_insert(m, id, index) ==
    [k \in (DOMAIN m) \cup {id} |-> IF k = id THEN index ELSE m[k]]

\* a removal that leaves the map as it was
map_remove_keep(m, id) == m

map_remove(m, id) == [k \in (DOMAIN m) \ {id} |-> m[k]]

\* a resolution that falls back on the sentinel, as the walkers' lookups do
add_widget_parent_or_null(widget, parent_id) ==
    IF parent_id = None THEN None
    ELSE LET m == map_insert(widget_map, widget.id, add_node_index(nodes, free_node))
         IN  IF parent_id[1] \in DOMAIN m THEN Some(m[parent_id[1]]) ELSE Some(null_index)

\* the parent's index as add_widget resolves it: after the new id is in the map
add_widget_parent(widget, parent_id) ==
    IF parent_id = None THEN None
    ELSE LET m == map_insert(widget_map, widget.id, add_node_index(nodes, free_node))
         IN  IF parent_id[1] \in DOMAIN m THEN Some(m[parent_id[1]]) ELSE None

\* WidgetGraph::add_widget
add_widget(widget, parent_id) ==
    LET widget_index == add_node_index(nodes, free_node)
        parent_index == add_widget_parent(widget, parent_id)
    IN  /\ ~last_call.panicked
        /\ nodes' = add_node_nodes(nodes, free_node, widget)
        /\ free_node' = add_node_free(free_node)
        /\ widget_map' = map_insert(widget_map, widget.id, widget_index)
        /\ edges' = IF parent_index # None
                    THEN add_edge(edges, parent_index[1], widget_index)
                    ELSE edges
        /\ last_call' = Call("add_widget", <<widget.id, parent_id>>, <<widget_index>>, FALSE)
        /\ UNCHANGED <<root_id, uiVars>>

\* WidgetGraph::remove_widget
remove_widget(widget_id) ==
    LET found == find_widget(widget_id)
    IN  /\ ~last_call.panicked
        /\ IF found # None
           THEN /\ widget_map' = map_remove(widget_map, widget_id)
                /\ IF contains_node(nodes, found[1])
                   THEN /\ nodes' = remove_node_nodes(nodes, found[1])
                        /\ free_node' = remove_node_free(free_node, found[1])
                        /\ edges' = without_node(edges, found[1])
                        /\ last_call' = Call("remove_widget", <<widget_id>>,
                                             nodes[found[1]], FALSE)
                   ELSE /\ UNCHANGED <<nodes, free_node, edges>>
                        /\ last_call' = Call("remove_widget", <<widget_id>>, None, FALSE)
           ELSE /\ UNCHANGED <<nodes, free_node, edges, widget_map>>
                /\ last_call' = Call("remove_widget", <<widget_id>>, None, FALSE)
        /\ UNCHANGED <<root_id, uiVars>>

\* a call that reads the graph and leaves it as it is
Query(op, args, ret, panicked) ==
    /\ ~last_call.panicked
    /\ last_call' = Call(op, args, ret, panicked)
    /\ UNCHANGED <<graphVars, uiVars>>

get_widget_containerCall(widget_id) ==
    Query("get_widget_container", <<widget_id>>, get_widget_container(widget_id), FALSE)

get_widgetCall(widget_id) ==
    Query("get_widget", <<widget_id>>, get_widget_container(widget_id), FALSE)

parentCall(widget_id) == Query("parent", <<widget_id>>, parent(widget_id), FALSE)

childrenCall(widget_id) == Query("children", <<widget_id>>, children(widget_id), FALSE)

dfsCall(widget_id) == Query("dfs", <<widget_id>>, DfsWalker(widget_id), FALSE)

\* WidgetGraph::root_index unwraps find_widget(root_id)
root_index_panics == find_widget(root_id) = None

widgets_under_cursorCall(point) ==
    IF root_index_panics
    THEN Query("widgets_under_cursor", <<point>>, << >>, TRUE)
    ELSE Query("widgets_under_cursor", <<point>>,
               CursorWidgetWalker(point, find_widget(root_id)[1]), FALSE)

\* WidgetGraph::get_root unwraps get_widget(root_id)
get_rootCall ==
    IF get_widget_container(root_id) = None
    THEN Query("get_root", << >>, << >>, TRUE)
    ELSE Query("get_root", << >>, get_widget_container(root_id), FALSE)

ParentIds == {None} \cup {Some(i) : i \in WidgetIds}

\* the calls that change the graph
Next ==
    \/ \E widget \in PlainContainers, parent_id \in ParentIds :
           /\ add_node_index(nodes, free_node) < MaxNodes
           /\ add_widget(widget, parent_id)
    \/ \E widget_id \in WidgetIds : remove_widget(widget_id)

Spec == Init /\ [][Next]_vars

\* every call of WidgetGraph
QueryNext ==
    \/ \E widget \in Containers, parent_id \in ParentIds :
           /\ add_node_index(nodes, free_node) < MaxQueryNodes
           /\ add_widget(widget, parent_id)
    \/ \E widget_id \in WidgetIds : remove_widget(widget_id)
    \/ \E widget_id \in WidgetIds : get_widgetCall(widget_id)
    \/ \E widget_id \in WidgetIds : get_widget_containerCall(widget_id)
    \/ \E widget_id \in WidgetIds : parentCall(widget_id)
    \/ \E widget_id \in WidgetIds : childrenCall(widget_id)
    \/ \E widget_id \in WidgetIds : dfsCall(widget_id)
    \/ \E point \in Points : widgets_under_cursorCall(point)
    \/ get_rootCall

QuerySpec == Init /\ [][QueryNext]_vars

\* the graphs add_widget builds, and the two traversals of them
WalkNext ==
    \/ \E widget \in Containers, parent_id \in ParentIds :
           /\ add_node_index(nodes, free_node) < MaxWalkNodes
           /\ add_widget(widget, parent_id)
    \/ \E widget_id \in WidgetIds : dfsCall(widget_id)
    \/ \E point \in Points : widgets_under_cursorCall(point)

WalkSpec == Init /\ [][WalkNext]_vars

-----------------------------------------------------------------------------
(* Ui and Widget: the event dispatcher *)

\* a hit test that every point passes
is_mouse_over_anywhere(widget, point) == widget.hits \subseteq UiPoints

\* Widget::is_mouse_over: mouse_over_fn on the point and the widget's bounds
is_mouse_over(widget, point) == point \in widget.hits

\* a test that takes any handler for a handler of id
id_registered_any(widget, id) == widget.event_handlers # << >>

\* post_event's id_registered closure
id_registered(widget, id) ==
    \E i \in DOMAIN widget.event_handlers : widget.event_handlers[i] = id

\* Widget::trigger_event's find: the first handler whose event_id() is id (0: none, the unwrap panics)
find_handler(widget, id) ==
    LET found == {i \in DOMAIN widget.event_handlers : widget.event_handlers[i] = id}
    IN  IF found = {} THEN 0 ELSE CHOOSE i \in found : \A j \in found : i <= j

\* the nodes Dfs::new(&self.graph, self.root_index) yields
ui_dfs == Dfs(ui_edges, ui_root_index)

\* the handler a hit-phase visit of node invokes, if any: the id it is triggered with
hit_trigger(node, point, event) ==
    LET widget == ui_nodes[node]
    IN  IF ~is_mouse_over(widget, point) THEN None
        ELSE IF event.id = MOUSE_CURSOR /\ id_registered(widget, WIDGET_MOUSE_OVER)
             THEN Some(WIDGET_MOUSE_OVER)
        ELSE IF event.id = PRESS /\ id_registered(widget, WIDGET_PRESS)
             THEN Some(WIDGET_PRESS)
        ELSE None

\* the nodes whose handler the hit phase invokes
hit_nodes(point, event) == {n \in DOMAIN ui_nodes : hit_trigger(n, point, event) # None}

\* the hit phase: one trigger_event per visited widget that qualifies; rets
\* gives what each invoked handler returns
RECURSIVE hit_phase(_, _, _, _)
hit_phase(order, point, event, rets) ==
    IF order = << >> THEN << >>
    ELSE LET node == Head(order)
             id == hit_trigger(node, point, event)
         IN  (IF id = None THEN << >>
              ELSE <<[phase |-> "hit", node |-> node, id |-> id[1], event |-> event,
                      handler |-> find_handler(ui_nodes[node], id[1]),
                      ret |-> rets[node]]>>)
             \o hit_phase(Tail(order), point, event, rets)

\* new_events: what the WIDGET_PRESS handlers returned, as <<node_index, event_id>>
RECURSIVE new_events(_)
new_events(hits) ==
    IF hits = << >> THEN << >>
    ELSE (IF Head(hits).id = WIDGET_PRESS /\ Head(hits).ret # None
          THEN <<<<Head(hits).node, Head(hits).ret[1]>>>>
          ELSE << >>)
         \o new_events(Tail(hits))

\* a traversal that stops at the first listener
RECURSIVE broadcast_first_only(_, _, _)
broadcast_first_only(order, event_id, rets) ==
    IF order = << >> THEN << >>
    ELSE IF \E i \in DOMAIN ui_nodes[Head(order)].event_handlers :
                ui_nodes[Head(order)].event_handlers[i] = event_id
         THEN <<[phase |-> "broadcast", node |-> Head(order), id |-> event_id,
                 event |-> Update0, handler |-> 1, ret |-> rets[Head(order)]]>>
         ELSE broadcast_first_only(Tail(order), event_id, rets)

\* one traversal of the broadcast phase, for one triggered event id; rets
\* gives what each invoked handler returns, which the loop drops
RECURSIVE broadcast_one(_, _, _)
broadcast_one(order, event_id, rets) ==
    IF order = << >> THEN << >>
    ELSE (IF id_registered(ui_nodes[Head(order)], event_id)
          THEN <<[phase |-> "broadcast", node |-> Head(order), id |-> event_id,
                  event |-> Update0,
                  handler |-> find_handler(ui_nodes[Head(order)], event_id),
                  ret |-> rets[Head(order)]]>>
          ELSE << >>)
         \o broadcast_one(Tail(order), event_id, rets)

\* the nodes the broadcast phase invokes a handler of
broadcast_nodes(events) ==
    {n \in DOMAIN ui_nodes :
        \E i \in DOMAIN events : id_registered(ui_nodes[n], events[i][2])}

\* what the handlers invoked by the traversals for events returned, as new_events holds it
RECURSIVE returned_events(_)
returned_events(bs) ==
    IF bs = << >> THEN << >>
    ELSE (IF Head(bs).ret # None THEN <<<<Head(bs).node, Head(bs).ret[1]>>>> ELSE << >>)
         \o returned_events(Tail(bs))

\* a broadcast phase that also broadcasts what the handlers it invokes return
RECURSIVE broadcast_phase_cascading(_, _)
broadcast_phase_cascading(events, rets) ==
    IF events = << >> THEN << >>
    ELSE LET bs == broadcast_one(ui_dfs, Head(events)[2], rets)
             RECURSIVE again(_)
             again(es) == IF es = << >> THEN << >>
                          ELSE broadcast_one(ui_dfs, Head(es)[2], rets) \o again(Tail(es))
         IN  bs \o again(returned_events(bs))
                \o broadcast_phase_cascading(Tail(events), rets)

\* the broadcast phase: one traversal for each element of new_events
RECURSIVE broadcast_phase(_, _)
broadcast_phase(events, rets) ==
    IF events = << >> THEN << >>
    ELSE broadcast_one(ui_dfs, Head(events)[2], rets)
         \o broadcast_phase(Tail(events), rets)

\* a dispatch that fires each triggered event as soon as its handler returns
RECURSIVE fire_immediately(_, _)
fire_immediately(hits, brets) ==
    IF hits = << >> THEN << >>
    ELSE <<Head(hits)>> \o broadcast_phase(new_events(<<Head(hits)>>), brets)
         \o fire_immediately(Tail(hits), brets)

post_event_calls_immediate(point, event, rets, brets) ==
    fire_immediately(hit_phase(ui_dfs, point, event, rets), brets)

\* the handler invocations of one post_event, in order
post_event_calls(point, event, rets, brets) ==
    LET hits == hit_phase(ui_dfs, point, event, rets)
    IN  hits \o broadcast_phase(new_events(hits), brets)

\* the nodes the broadcast phase of a post_event invokes a handler of
post_event_listeners(point, event, rets) ==
    broadcast_nodes(new_events(hit_phase(ui_dfs, point, event, rets)))

\* Ui::post_event
post_event(event, rets, brets) ==
    /\ ~ui_panicked
    /\ calls' = post_event_calls(mouse, event, rets, brets)
    /\ ui_call' = [op |-> "post_event", event |-> Some(event)]
    /\ UNCHANGED <<ui_nodes, ui_edges, mouse, layoutVars>>
    /\ UNCHANGED <<graphVars, last_call>>

\* a handle_event that never stores the event's position
handle_event_mouse_stale(event) == mouse

\* the cursor position handle_event stores before it posts the event
handle_event_mouse(event) == IF event.pos # None THEN event.pos[1] ELSE mouse

\* Ui::handle_event
handle_event(event, rets, brets) ==
    /\ ~ui_panicked
    /\ mouse' = handle_event_mouse(event)
    /\ calls' = post_event_calls(handle_event_mouse(event), event, rets, brets)
    /\ ui_call' = [op |-> "handle_event", event |-> Some(event)]
    /\ UNCHANGED <<ui_nodes, ui_edges, layoutVars>>
    /\ UNCHANGED <<graphVars, last_call>>

\* the constraints an author's layout holds, for the widget at child_index
RECURSIVE authored(_, _)
authored(child_index, layout) ==
    IF layout = << >> THEN << >>
    ELSE <<Constraint(child_index, Head(layout))>> \o authored(child_index, Tail(layout))

\* WidgetLayout::bound_by: the containment constraints, one for each edge,
\* which it pushes on the child's layout.constraints
bound_by(child_index, parent_index) ==
    <<Constraint(child_index, "bound_left"), Constraint(child_index, "bound_top"),
      Constraint(child_index, "bound_right"), Constraint(child_index, "bound_bottom")>>

\* Ui::add_widget; layout gives the constraints the child's layout comes with
ui_add_widget(parent_index, child, layout) ==
    LET child_index == Cardinality(DOMAIN ui_nodes)
    IN  /\ ~ui_panicked
        /\ ui_nodes' = [i \in (DOMAIN ui_nodes) \cup {child_index} |->
                           IF i = child_index THEN child ELSE ui_nodes[i]]
        /\ ui_edges' = add_edge(ui_edges, parent_index, child_index)
        /\ layout_constraints' =
               [i \in (DOMAIN layout_constraints) \cup {child_index} |->
                   IF i = child_index
                   THEN authored(child_index, layout) \o bound_by(child_index, parent_index)
                   ELSE layout_constraints[i]]
        /\ ui_call' = [op |-> "add_widget", event |-> None]
        /\ calls' = << >>
        /\ UNCHANGED <<mouse, constraints, solver, ui_panicked>>
        /\ UNCHANGED <<graphVars, last_call>>

\* Solver::add_constraints: the constraints are added one at a time, and one
\* the solver already holds ends the call with DuplicateConstraint
RECURSIVE add_constraints(_, _)
add_constraints(cns, cs) ==
    IF cs = << >> THEN [cns |-> cns, err |-> FALSE]
    ELSE IF Head(cs) \in cns THEN [cns |-> cns, err |-> TRUE]
    ELSE add_constraints(cns \cup {Head(cs)}, Tail(cs))

\* what init's loop appends to Ui.constraints: every visited node's layout.constraints
RECURSIVE init_appended(_)
init_appended(order) ==
    IF order = << >> THEN << >>
    ELSE layout_constraints[Head(order)] \o init_appended(Tail(order))

\* Ui::init
init ==
    LET all == constraints \o init_appended(ui_dfs)
        added == add_constraints(solver, all)
    IN  /\ ~ui_panicked
        /\ constraints' = all
        /\ layout_constraints' =
               [n \in DOMAIN layout_constraints |->
                   IF \E i \in DOMAIN ui_dfs : ui_dfs[i] = n THEN << >>
                   ELSE layout_constraints[n]]
        /\ solver' = added.cns
        /\ ui_panicked' = added.err
        /\ ui_call' = [op |-> "init", event |-> None]
        /\ calls' = << >>
        /\ UNCHANGED <<ui_nodes, ui_edges, mouse>>
        /\ UNCHANGED <<graphVars, last_call>>

UiNext ==
    \/ \E parent_index \in DOMAIN ui_nodes, child \in UiWidgets :
           /\ Cardinality(DOMAIN ui_nodes) < MaxUiNodes
           /\ ui_add_widget(parent_index, child, NoLayout)
    \/ \E event \in Events :
           \E rets \in [hit_nodes(handle_event_mouse(event), event) -> HandlerReturns] :
               \E brets \in [post_event_listeners(handle_event_mouse(event), event, rets)
                                 -> HandlerReturns] :
                   handle_event(event, rets, brets)
    \/ \E event \in Events :
           \E rets \in [hit_nodes(mouse, event) -> HandlerReturns] :
               \E brets \in [post_event_listeners(mouse, event, rets) -> HandlerReturns] :
                   post_event(event, rets, brets)

UiSpec == Init /\ [][UiNext]_vars

\* the Ui built by add_widget and init
LayoutNext ==
    \/ \E parent_index \in DOMAIN ui_nodes, child \in LayoutWidgets, layout \in Layouts :
           /\ Cardinality(DOMAIN ui_nodes) < MaxLayoutNodes
           /\ ui_add_widget(parent_index, child, layout)
    \/ init

LayoutSpec == Init /\ [][LayoutNext]_vars

-----------------------------------------------------------------------------
(* Notions the properties of WidgetGraph are stated with *)

LiveNodes == {a \in DOMAIN nodes : contains_node(nodes, a)}

EdgeSet == {edges[i] : i \in DOMAIN edges}

\* the nodes reached from a by one or more parent->child edges
RECURSIVE ReachFrom(_, _)
ReachFrom(frontier, seen) ==
    LET next == {e[2] : e \in {d \in EdgeSet : d[1] \in frontier}}
    IN  IF next \subseteq seen THEN seen ELSE ReachFrom(next \ seen, seen \cup next)

Descendants(a) == ReachFrom({a}, {})

RECURSIVE SeqWithout(_, _)
SeqWithout(es, a) ==
    IF es = << >> THEN << >>
    ELSE (IF a \in {Head(es)[1], Head(es)[2]} THEN << >> ELSE <<Head(es)>>)
         \o SeqWithout(Tail(es), a)

MappedIds == DOMAIN widget_map

-----------------------------------------------------------------------------
(* C1 *)

\* C1: the identity map and the graph's node set are in 1:1 correspondence:
\* every id of widget_map points to a live node, no two ids point to the same
\* node, and every live node but the sentinel is the target of a map entry.
C1_MapAndNodesOneToOne ==
    /\ \A id \in MappedIds : contains_node(nodes, widget_map[id])
    /\ \A id1, id2 \in MappedIds : widget_map[id1] = widget_map[id2] => id1 = id2
    /\ \A a \in LiveNodes \ {null_index} : \E id \in MappedIds : widget_map[id] = a

-----------------------------------------------------------------------------
(* C4 *)

\* C4: remove_widget(id) on a mapped id removes the node id maps to, id's map
\* entry and exactly the edges incident to that node, and returns the node's
\* container; every other node, map entry and edge is as before (a former
\* child is still stored and mapped and has no parent), and children(id) then
\* yields nothing.
C4_RemoveDetachesOwnNode ==
    [][\A id \in WidgetIds :
          (last_call'.op = "remove_widget" /\ last_call'.args = <<id>> /\ id \in MappedIds) =>
              LET a == widget_map[id]
              IN  /\ nodes' = [nodes EXCEPT ![a] = None]
                  /\ widget_map' = [k \in MappedIds \ {id} |-> widget_map[k]]
                  /\ edges' = SeqWithout(edges, a)
                  /\ last_call'.ret = nodes[a]
                  /\ ~last_call'.panicked
                  /\ \A k \in MappedIds \ {id} :
                         /\ contains_node(nodes', widget_map'[k])
                         /\ <<a, widget_map[k]>> \in EdgeSet => parent(k)' = None
                  /\ children(id)' = << >>]_vars

\* a widget that had a child was removed: the child is still stored and mapped
C4_Witness ==
    /\ last_call.op = "remove_widget"
    /\ last_call.ret # None
    /\ Cardinality(MappedIds) = 2
    /\ edges = << >>
    /\ free_node = <<2>>
    /\ Cardinality(DOMAIN nodes) = 4

-----------------------------------------------------------------------------
(* C5 *)

LookupOps == {"get_widget", "get_widget_container", "parent", "children", "dfs"}

RootOps == {"widgets_under_cursor", "get_root"}

\* C5: no call panics, and a call that looks up an id absent from widget_map
\* (the root's id for widgets_under_cursor and get_root) has an empty result.
C5_LookupMissIsEmptyNeverAborts ==
    /\ ~last_call.panicked
    /\ (last_call.op \in LookupOps /\ last_call.args[1] \notin MappedIds)
           => last_call.ret = << >>
    /\ (last_call.op \in RootOps /\ root_id \notin MappedIds) => last_call.ret = << >>

-----------------------------------------------------------------------------
(* C6 *)

\* C6: for an id that is not in widget_map, parent(id) is None and
\* children(id) yields no id, the sentinel node has no edge, and a parent or
\* children call leaves the graph as it is.
C6_UnknownIdHasNoRelatives ==
    /\ [](/\ \A id \in WidgetIds \ MappedIds : parent(id) = None /\ children(id) = << >>
          /\ (last_call.op \in {"parent", "children"} /\ last_call.args[1] \notin MappedIds)
                 => last_call.ret = << >> /\ ~last_call.panicked
          /\ \A e \in EdgeSet : e[1] # null_index /\ e[2] # null_index)
    /\ [][last_call'.op \in {"parent", "children"} => UNCHANGED graphVars]_vars

\* children was asked of an id that was removed, in a graph that has edges
C6_Witness ==
    /\ last_call.op = "children"
    /\ last_call.args[1] \notin MappedIds
    /\ last_call.ret = << >>
    /\ free_node # << >>
    /\ edges # << >>

-----------------------------------------------------------------------------
(* C7 *)

\* C7: the parent->child edge relation has no cycle, self-edges included: no
\* node is reached from itself by one or more edges.
C7_NoCycle == \A a \in LiveNodes : a \notin Descendants(a)

-----------------------------------------------------------------------------
(* C8 *)

\* C8: every widget in widget_map is the root widget or is reached from it by
\* parent->child edges.
C8_AllReachableFromRoot ==
    root_id \in MappedIds =>
        \A id \in MappedIds :
            widget_map[id] \in {widget_map[root_id]} \cup Descendants(widget_map[root_id])

-----------------------------------------------------------------------------
(* Notions the properties of the dispatcher are stated with *)

Dispatched == ui_call.op \in {"post_event", "handle_event"}

Handlers(n) == {ui_nodes[n].event_handlers[i] : i \in DOMAIN ui_nodes[n].event_handlers}

EventIds == {MOUSE_CURSOR, PRESS, RELEASE, WIDGET_MOUSE_OVER, WIDGET_PRESS, TOGGLED, Update0.id}

HitCalls(n, id) ==
    {i \in DOMAIN calls : calls[i].phase = "hit" /\ calls[i].node = n /\ calls[i].id = id}

BroadcastCalls(n, id) ==
    {i \in DOMAIN calls : calls[i].phase = "broadcast" /\ calls[i].node = n /\ calls[i].id = id}

\* the hit-phase WIDGET_PRESS invocations that returned Some(id)
PressReturns(id) ==
    {i \in DOMAIN calls : /\ calls[i].phase = "hit"
                          /\ calls[i].id = WIDGET_PRESS
                          /\ calls[i].ret = Some(id)}

\* the hit-phase invocations that returned Some(id)
HitReturns(id) == {i \in DOMAIN calls : calls[i].phase = "hit" /\ calls[i].ret = Some(id)}

UiEdgeSet == {ui_edges[i] : i \in DOMAIN ui_edges}

RECURSIVE UiReach(_, _)
UiReach(frontier, seen) ==
    LET next == {e[2] : e \in {d \in UiEdgeSet : d[1] \in frontier}}
    IN  IF next \subseteq seen THEN seen ELSE UiReach(next \ seen, seen \cup next)

\* the widgets of the tree: the root and what is reached from it
TreeNodes == {ui_root_index} \cup UiReach({ui_root_index}, {})

-----------------------------------------------------------------------------
(* C2 *)

\* C2 as stated: when a PRESS is dispatched and a hit widget's WIDGET_PRESS
\* handler returns K, every widget of the tree registered for K receives
\* exactly one broadcast callback for K in that call.
C2_ExactlyOneCallback ==
    (Dispatched /\ ui_call.event[1].id = PRESS) =>
        \A id \in EventIds : PressReturns(id) # {} =>
            \A n \in TreeNodes : id \in Handlers(n) => Cardinality(BroadcastCalls(n, id)) = 1

\* C2 as amended: every widget of the tree registered for K receives, with the
\* payload Update(dt = 0), exactly one broadcast callback for K for each hit
\* widget whose WIDGET_PRESS handler returned K in that call, wherever the
\* widget is; a widget not registered for K receives none.
C2_OneCallbackPerTrigger ==
    Dispatched =>
        \A id \in EventIds : \A n \in DOMAIN ui_nodes :
            /\ n \in TreeNodes
            /\ Cardinality(BroadcastCalls(n, id)) =
                   IF id \in Handlers(n) THEN Cardinality(PressReturns(id)) ELSE 0
            /\ \A i \in BroadcastCalls(n, id) : calls[i].event = Update0

\* a press whose handler returned TOGGLED reached two listeners, one of them
\* not under the cursor
C2_Witness ==
    /\ Dispatched
    /\ ui_call.event[1].id = PRESS
    /\ Cardinality(PressReturns(TOGGLED)) = 1
    /\ \E n1, n2 \in DOMAIN ui_nodes :
           /\ n1 # n2
           /\ mouse \notin ui_nodes[n2].hits
           /\ Cardinality(BroadcastCalls(n1, TOGGLED)) = 1
           /\ Cardinality(BroadcastCalls(n2, TOGGLED)) = 1

-----------------------------------------------------------------------------
(* C3 *)

\* the widget kind the hit phase dispatches for a raw event, if any
HitKind(event_id) ==
    IF event_id = PRESS THEN {WIDGET_PRESS}
    ELSE IF event_id = MOUSE_CURSOR THEN {WIDGET_MOUSE_OVER}
    ELSE {}

\* C3: in the hit phase a widget's handler for an id is invoked exactly once
\* if the widget is in the tree, the stored pointer position passes its hit
\* test, and id is the kind of the event (WIDGET_PRESS for PRESS,
\* WIDGET_MOUSE_OVER for MOUSE_CURSOR) and the widget is registered for it;
\* otherwise it is not invoked at all.
C3_HitPhaseInvokesExactlyTheHitWidgets ==
    Dispatched =>
        \A n \in DOMAIN ui_nodes : \A id \in EventIds :
            Cardinality(HitCalls(n, id)) =
                IF /\ n \in TreeNodes
                   /\ mouse \in ui_nodes[n].hits
                   /\ id \in HitKind(ui_call.event[1].id)
                   /\ id \in Handlers(n)
                THEN 1 ELSE 0

\* two siblings registered for WIDGET_PRESS, the pointer inside one only: a
\* PRESS invoked that one's handler and not the other's
C3_Witness ==
    /\ Dispatched
    /\ ui_call.event[1].id = PRESS
    /\ \E b, c \in DOMAIN ui_nodes :
           /\ <<ui_root_index, b>> \in UiEdgeSet /\ <<ui_root_index, c>> \in UiEdgeSet
           /\ WIDGET_PRESS \in Handlers(b) /\ WIDGET_PRESS \in Handlers(c)
           /\ mouse \in ui_nodes[b].hits /\ mouse \notin ui_nodes[c].hits
           /\ HitCalls(b, WIDGET_PRESS) # {} /\ HitCalls(c, WIDGET_PRESS) = {}

-----------------------------------------------------------------------------
(* C9 *)

\* C9: every event id a hit-phase handler returned, for WIDGET_PRESS or for
\* WIDGET_MOUSE_OVER, is broadcast in the same call: every widget registered
\* for it receives a broadcast callback for it.
C9_EveryReturnedKindIsBroadcast ==
    Dispatched =>
        \A id \in EventIds : HitReturns(id) # {} =>
            \A n \in TreeNodes : id \in Handlers(n) => BroadcastCalls(n, id) # {}

-----------------------------------------------------------------------------
(* C10 *)

\* C10: within one post_event no hit-phase invocation comes after a
\* broadcast-phase invocation.
C10_HitPhaseBeforeBroadcast ==
    Dispatched =>
        \A i, j \in DOMAIN calls :
            (calls[i].phase = "broadcast" /\ calls[j].phase = "hit") => j < i

\* two hit-phase handlers ran, the first returned an event id, and its
\* broadcast came after the second
C10_Witness ==
    /\ Dispatched
    /\ Len(calls) >= 3
    /\ calls[1].phase = "hit" /\ calls[1].ret # None
    /\ calls[2].phase = "hit"
    /\ calls[3].phase = "broadcast"

-----------------------------------------------------------------------------
(* C11 *)

\* C11: handle_event stores the event's position when the event is a pointer
\* motion and leaves the stored position as it was for every other event, and
\* the hit phase of the same call tests every widget against the position
\* stored then: the widgets whose handler it invokes are those that are
\* registered for the event's kind and whose hit test holds there.
C11_PointerTrackedBeforeHitTest ==
    [][ui_call'.op = "handle_event" =>
          /\ mouse' = IF ui_call'.event[1].id = MOUSE_CURSOR
                      THEN ui_call'.event[1].pos[1]
                      ELSE mouse
          /\ \A n \in DOMAIN ui_nodes :
                 ({i \in DOMAIN calls' : calls'[i].phase = "hit" /\ calls'[i].node = n} # {})
                     <=> /\ mouse' \in ui_nodes[n].hits
                         /\ HitKind(ui_call'.event[1].id) \cap Handlers(n) # {}]_vars

\* a PRESS was handled after the cursor had been moved: it hit a widget at
\* the position stored by the earlier motion, not at the origin
C11_Witness ==
    /\ ui_call.op = "handle_event"
    /\ ui_call.event[1].id = PRESS
    /\ mouse = "p"
    /\ \E n \in DOMAIN ui_nodes :
           /\ Origin \notin ui_nodes[n].hits
           /\ HitCalls(n, WIDGET_PRESS) # {}

-----------------------------------------------------------------------------
(* Notions the properties of the walkers are stated with *)

\* the orders in which the nodes of S can be yielded, each once
Orders(S) ==
    {f \in [1..Cardinality(S) -> S] : \A i, j \in 1..Cardinality(S) : f[i] = f[j] => i = j}

IdsOf(ns) == [i \in DOMAIN ns |-> nodes[ns[i]][1].id]

Acyclic == \A a \in LiveNodes : a \notin Descendants(a)

-----------------------------------------------------------------------------
(* C12 *)

\* C12: on a graph without cycles and with the root mapped,
\* widgets_under_cursor(point) yields the nodes that are the root or reached
\* from it and whose hit test holds at point, each once and no other, every
\* one of them after all of its yielded descendants.
C12_UnderCursorPostOrder ==
    (last_call.op = "widgets_under_cursor" /\ root_id \in MappedIds /\ Acyclic) =>
        LET r == widget_map[root_id]
            point == last_call.args[1]
            hit == {a \in {r} \cup Descendants(r) : point \in nodes[a][1].hits}
        IN  /\ ~last_call.panicked
            /\ \E ns \in Orders(hit) :
                   /\ IdsOf(ns) = last_call.ret
                   /\ \A i, j \in DOMAIN ns : i < j => ns[j] \notin Descendants(ns[i])

\* a root with two more widgets below it, of which one does not contain the
\* point: the other two were yielded
C12_Witness ==
    /\ last_call.op = "widgets_under_cursor"
    /\ root_id \in MappedIds
    /\ Acyclic
    /\ Cardinality(Descendants(widget_map[root_id])) = 2
    /\ Len(last_call.ret) = 2
    /\ last_call.ret[2] = root_id

-----------------------------------------------------------------------------
(* C13 *)

\* the walk the last dfs call made is a pre-order of the subtree of its id
DfsYieldsSubtree ==
    (last_call.op = "dfs" /\ last_call.args[1] \in MappedIds) =>
        LET a == widget_map[last_call.args[1]]
        IN  /\ ~last_call.panicked
            /\ \E ns \in Orders({a} \cup Descendants(a)) :
                   /\ IdsOf(ns) = last_call.ret
                   /\ ns[1] = a
                   /\ last_call.ret[1] = last_call.args[1]
                   /\ \A j \in DOMAIN ns : j > 1 =>
                          \E i \in DOMAIN ns : i < j /\ <<ns[i], ns[j]>> \in EdgeSet

\* C13: dfs(id) for a mapped id yields id first and then every node reached
\* from id's node, each once and no other, every one of them after its
\* parent; and a dfs(id) that follows a dfs(id) yields the same sequence.
C13_DfsPreOrder ==
    /\ []DfsYieldsSubtree
    /\ [][(/\ last_call.op = "dfs" /\ last_call'.op = "dfs"
           /\ last_call'.args = last_call.args
           /\ last_call.args[1] \in MappedIds)
              => last_call'.ret = last_call.ret]_vars

\* a walk from a widget with a child and a grandchild
C13_Witness ==
    /\ last_call.op = "dfs"
    /\ last_call.args[1] \in MappedIds
    /\ Len(last_call.ret) = 3
    /\ \E b, c \in LiveNodes :
           /\ <<widget_map[last_call.args[1]], b>> \in EdgeSet
           /\ <<b, c>> \in EdgeSet
           /\ b # c

-----------------------------------------------------------------------------
(* C15 *)

\* C15: a walker made for an id that is not in widget_map yields nothing:
\* dfs, parent and children of an unmapped id all return the empty result.
C15_UnknownIdWalkYieldsNothing ==
    (/\ last_call.op \in {"dfs", "parent", "children"}
     /\ last_call.args[1] \notin MappedIds) =>
        /\ ~last_call.panicked
        /\ last_call.ret = << >>

-----------------------------------------------------------------------------
(* C16 *)

\* C16: every id of widget_map points to a live node whose container has
\* that id, and get_widget and get_widget_container return that node's
\* container when the id is mapped and None when it is not.
C16_MapPointsToOwnContainer ==
    /\ \A id \in MappedIds :
           /\ widget_map[id] \in DOMAIN nodes
           /\ nodes[widget_map[id]] # None
           /\ nodes[widget_map[id]][1].id = id
    /\ last_call.op \in {"get_widget", "get_widget_container"} =>
           /\ ~last_call.panicked
           /\ IF last_call.args[1] \in MappedIds
              THEN /\ last_call.ret = nodes[widget_map[last_call.args[1]]]
                   /\ last_call.ret # None
              ELSE last_call.ret = None

\* a lookup answered with the mapped container of an id that a second live
\* node, left by an earlier add_widget of the same id, also carries
C16_Witness ==
    /\ last_call.op = "get_widget"
    /\ last_call.ret # None
    /\ \E a \in LiveNodes :
           /\ a # widget_map[last_call.args[1]]
           /\ nodes[a][1].id = last_call.args[1]
           /\ nodes[a] # last_call.ret

-----------------------------------------------------------------------------
(* C17 *)

\* C17: every trigger_event(id, ..) of a post_event, in the hit phase and in
\* the broadcast phase, is called on a widget that has a handler whose
\* event_id() is id: the find in trigger_event never comes back empty.
C17_TriggerAlwaysFindsHandler ==
    \A i \in DOMAIN calls :
        /\ calls[i].node \in DOMAIN ui_nodes
        /\ calls[i].handler \in DOMAIN ui_nodes[calls[i].node].event_handlers
        /\ ui_nodes[calls[i].node].event_handlers[calls[i].handler] = calls[i].id

\* a press dispatched to a tree in which a hit widget has handlers but none
\* for WIDGET_PRESS, and in which a handler was invoked in each phase
C17_Witness ==
    /\ Dispatched
    /\ ui_call.event[1].id = PRESS
    /\ \E n \in TreeNodes :
           /\ mouse \in ui_nodes[n].hits
           /\ Handlers(n) # {}
           /\ WIDGET_PRESS \notin Handlers(n)
    /\ \E i, j \in DOMAIN calls : calls[i].phase = "hit" /\ calls[j].phase = "broadcast"

-----------------------------------------------------------------------------
(* C18 *)

\* C18: one post_event invokes at most N handlers in the hit phase and at most
\* N more for each event id the hit phase collected, N being the number of
\* widgets of the tree; what the handlers invoked in the broadcast phase
\* return, their own id included, adds no invocation.
C18_BroadcastDoesNotCascade ==
    LET N == Cardinality(TreeNodes)
        hit == {i \in DOMAIN calls : calls[i].phase = "hit"}
        collected == {i \in hit : calls[i].id = WIDGET_PRESS /\ calls[i].ret # None}
        broadcast == {i \in DOMAIN calls : calls[i].phase = "broadcast"}
    IN  /\ Cardinality(hit) <= N
        /\ Cardinality(broadcast) <= N * Cardinality(collected)
        /\ Len(calls) <= N + N * Cardinality(collected)
        /\ \A id \in EventIds :
               Cardinality({i \in broadcast : calls[i].id = id}) =
                   Cardinality({n \in TreeNodes : id \in Handlers(n)})
                       * Cardinality({i \in collected : calls[i].ret = Some(id)})

\* a widget's TOGGLED handler, invoked in the broadcast phase, returned
\* TOGGLED, and so did another widget's: the call ended with those invocations
C18_Witness ==
    /\ Dispatched
    /\ \E i, j \in DOMAIN calls :
           /\ i < j
           /\ calls[i].phase = "broadcast" /\ calls[i].id = TOGGLED
           /\ calls[i].ret = Some(TOGGLED)
           /\ calls[j].phase = "broadcast" /\ calls[j].ret = Some(TOGGLED)
           /\ calls[i].node # calls[j].node
           /\ j = Len(calls)

-----------------------------------------------------------------------------
(* C14 *)

\* the widgets that have been added as a child
Attached == {n \in DOMAIN ui_nodes : \E e \in UiEdgeSet : e[2] = n}

\* the constraints of the widget at n, wherever they are held
Owned(n) ==
    {c \in solver : c.owner = n}
        \cup {constraints[i] : i \in {j \in DOMAIN constraints : constraints[j].owner = n}}
        \cup {layout_constraints[n][i] : i \in DOMAIN layout_constraints[n]}

\* C14: the solver holds the constraints of a widget exactly while the widget
\* is attached: all the constraints of every widget that has been added as a
\* child, and none of a widget that has not.
C14_SolverHoldsAttachedConstraints ==
    /\ \A n \in Attached : Owned(n) \subseteq solver
    /\ \A c \in solver : c.owner \in Attached \cup {ui_root_index}

-----------------------------------------------------------------------------
(* C19 *)

\* C19: no init call hands the solver a constraint an earlier call handed it,
\* and no init call fails.
C19_EachConstraintSubmittedOnce ==
    [][ui_call'.op = "init" =>
          /\ ~ui_panicked'
          /\ \A i \in DOMAIN constraints' : constraints'[i] \notin solver]_vars

====
